---- MODULE Spec2Model ----
(***************************************************************************)
(* Model of src/Main.py: the /query handler create_query, the dispatcher   *)
(* process_query, the classifier call generate_mistral_response and the    *)
(* cluster helpers.  Texts (queries, classifier output, answers, log       *)
(* lines) are strings; Python's None is the empty tuple and a present      *)
(* value v is <<v>>.                                                       *)
(***************************************************************************)
EXTENDS Integers, Sequences, FiniteSets, TLC

VARIABLES pc, request_data, query, data, intent_response, branch, calls, answer, log, http

vars == <<pc, request_data, query, data, intent_response, branch, calls, answer, log, http>>

(* ---------------- bounds of the enumerated inputs ---------------- *)

MaxTextSegs == 2
MaxQuerySegs == 2

(* ---------------- Python values ---------------- *)

None == <<>>
Some(v) == <<v>>

\* str(x) as an f-string renders an optional text
str(x) == IF x = None THEN "None" ELSE x[1]

\* the empty dict {} and the empty list []
EmptyObj == <<>>

\* dict.get(key, default)
Get(d, key, default) == IF key \in DOMAIN d THEN d[key] ELSE default

\* a JSON string value and the JSON null
JStr(s) == [str |-> s]
JNull == [null |-> TRUE]

(* ---------------- strings ---------------- *)

Char(s, i) == SubSeq(s, i, i)

\* Python's `p in s` on strings
Contains(s, p) ==
    \E i \in 1..(Len(s) - Len(p) + 1) : SubSeq(s, i, i + Len(p) - 1) = p

StartsWith(s, p) == Len(p) <= Len(s) /\ SubSeq(s, 1, Len(p)) = p

\* the characters str.strip() removes and the regex class \s matches
Whitespace == {" ", "\t", "\n", "\r", "\f"}

\* the regex class [\w\-\d]
WordChars ==
    {"a", "b", "c", "d", "e", "f", "g", "h", "i", "j", "k", "l", "m",
     "n", "o", "p", "q", "r", "s", "t", "u", "v", "w", "x", "y", "z",
     "A", "B", "C", "D", "E", "F", "G", "H", "I", "J", "K", "L", "M",
     "N", "O", "P", "Q", "R", "S", "T", "U", "V", "W", "X", "Y", "Z",
     "0", "1", "2", "3", "4", "5", "6", "7", "8", "9", "_", "-"}

SetMin(S) == CHOOSE i \in S : \A j \in S : i <= j
SetMax(S) == CHOOSE i \in S : \A j \in S : j <= i

\* str.strip()
strip(s) ==
    LET keep == {i \in 1..Len(s) : Char(s, i) \notin Whitespace}
    IN  IF keep = {} THEN "" ELSE SubSeq(s, SetMin(keep), SetMax(keep))

\* ", ".join(names)
RECURSIVE join(_, _)
join(sep, names) ==
    IF Len(names) = 0 THEN ""
    ELSE IF Len(names) = 1 THEN names[1]
    ELSE names[1] \o sep \o join(sep, Tail(names))

\* first index >= j that holds no whitespace (Len(s) + 1 when there is none)
SkipSpace(s, j) ==
    SetMin({k \in j..(Len(s) + 1) : k = Len(s) + 1 \/ Char(s, k) \notin Whitespace})

\* first index >= j that holds no word character
SkipWord(s, j) ==
    SetMin({k \in j..(Len(s) + 1) : k = Len(s) + 1 \/ Char(s, k) \notin WordChars})

\* one match of  keyword \s+ '? ([\w\-\d]+) '?  starting exactly at i, the
\* quotes allowed only when quoted; from/to delimit the group, next is the
\* index after the match
MatchAt(s, i, keyword, quoted) ==
    LET j == i + Len(keyword) IN
    IF j - 1 > Len(s) \/ SubSeq(s, i, j - 1) # keyword
    THEN [ok |-> FALSE, from |-> i, to |-> i, next |-> i]
    ELSE LET k == SkipSpace(s, j)
             g == IF quoted /\ k <= Len(s) /\ Char(s, k) = "'" THEN k + 1 ELSE k
             e == SkipWord(s, g)
             n == IF quoted /\ e <= Len(s) /\ Char(s, e) = "'" THEN e + 1 ELSE e
         IN  [ok |-> k > j /\ e > g, from |-> g, to |-> e - 1, next |-> n]

\* re.findall: the groups of the non-overlapping matches, left to right
RECURSIVE findall(_, _, _, _)
findall(s, pos, keyword, quoted) ==
    LET hits == {i \in pos..Len(s) : MatchAt(s, i, keyword, quoted).ok}
    IN  IF hits = {} THEN <<>>
        ELSE LET m == MatchAt(s, SetMin(hits), keyword, quoted)
             IN  <<SubSeq(s, m.from, m.to)>> \o findall(s, m.next, keyword, quoted)

\* re.findall(r"named\s+'?([\w\-\d]+)'?", query)
findall_named(text) == findall(text, 1, "named", TRUE)

\* re.findall(r"by\s+([\w\-\d]+)", query)
findall_by(text) == findall(text, 1, "by", FALSE)

(* ---------------- results of the helper functions ---------------- *)

\* an entry of agent.log
LogLine(level, msg) == [level |-> level, msg |-> msg]

\* a remote call (the completion service or one cluster API operation) and
\* how it ended: error is the str() of the exception it raised, "" if none
Call(op, namespace, arg, status, error) ==
    [op |-> op, namespace |-> namespace, arg |-> arg, status |-> status, error |-> error]

\* a function returned value after making calls and writing log
Return(value, made, logged) ==
    [raised |-> FALSE, value |-> value, detail |-> "", calls |-> made, log |-> logged]

\* a function let an exception with str(e) = detail escape
Raise(detail, made, logged) ==
    [raised |-> TRUE, value |-> "", detail |-> detail, calls |-> made, log |-> logged]

(* ---------------- the completion service ---------------- *)

MISTRAL_API_URL == "https://api.mistral.ai/v1/chat/completions"

\* what requests.post / raise_for_status / response.json() can produce
TransportError ==
    [kind |-> "ConnectionError", status |-> 0, detail |-> "Connection aborted.", data |-> EmptyObj]
HTTPError ==
    [kind |-> "HTTPError", status |-> 401, detail |-> "401 Client Error: Unauthorized for url",
     data |-> EmptyObj]
Success(json) == [kind |-> "ok", status |-> 200, detail |-> "", data |-> json]

IndexErrorText == "list index out of range"
AttributeErrorText == "'NoneType' object has no attribute 'strip'"
TypeErrorText == "expected string or bytes-like object, got 'NoneType'"

\* variant: a failed service call is swallowed and read as an empty completion
generate_mistral_response_swallow(prompt, resp) ==
    LET made == <<Call("chat_completions", MISTRAL_API_URL, prompt, resp.status, resp.detail)>> IN
    IF resp.kind # "ok" THEN Return("", made, <<>>)
    ELSE LET choices == Get(resp.data, "choices", <<EmptyObj>>) IN
         IF Len(choices) = 0 THEN Raise(IndexErrorText, made, <<>>)
         ELSE LET message == Get(choices[1], "message", EmptyObj)
                  content == Get(message, "content", JStr(""))
              IN  IF "null" \in DOMAIN content
                  THEN Raise(AttributeErrorText, made, <<>>)
                  ELSE Return(strip(content.str), made, <<>>)

\* variant: a failed service call is repeated once
generate_mistral_response_retry(prompt, resp) ==
    LET once == <<Call("chat_completions", MISTRAL_API_URL, prompt, resp.status, resp.detail)>> IN
    IF resp.kind # "ok" THEN Raise(resp.detail, once \o once, <<>>)
    ELSE LET choices == Get(resp.data, "choices", <<EmptyObj>>) IN
         IF Len(choices) = 0 THEN Raise(IndexErrorText, once, <<>>)
         ELSE LET message == Get(choices[1], "message", EmptyObj)
                  content == Get(message, "content", JStr(""))
              IN  IF "null" \in DOMAIN content
                  THEN Raise(AttributeErrorText, once, <<>>)
                  ELSE Return(strip(content.str), once, <<>>)

generate_mistral_response(prompt, resp) ==
    LET made == <<Call("chat_completions", MISTRAL_API_URL, prompt, resp.status, resp.detail)>> IN
    IF resp.kind # "ok" THEN Raise(resp.detail, made, <<>>)
    ELSE LET choices == Get(resp.data, "choices", <<EmptyObj>>) IN
         IF Len(choices) = 0 THEN Raise(IndexErrorText, made, <<>>)
         ELSE LET message == Get(choices[1], "message", EmptyObj)
                  content == Get(message, "content", JStr(""))
              IN  IF "null" \in DOMAIN content
                  THEN Raise(AttributeErrorText, made, <<>>)
                  ELSE Return(strip(content.str), made, <<>>)

(* ---------------- the cluster API and its helpers ---------------- *)

\* what the cluster API answers to the call of a request: a result (the
\* items of a list call, the phase of a read call), an ApiException with an
\* HTTP status, or another exception
ApiOk(items, phase) ==
    [kind |-> "ok", status |-> 200, detail |-> "", items |-> items, phase |-> phase]
ApiException(status, detail) ==
    [kind |-> "ApiException", status |-> status, detail |-> detail, items |-> <<>>, phase |-> ""]
OtherException(detail) ==
    [kind |-> "Exception", status |-> 0, detail |-> detail, items |-> <<>>, phase |-> ""]

get_pods(cluster) ==
    LET made == <<Call("list_namespaced_pod", "default", "", cluster.status, cluster.detail)>> IN
    IF cluster.kind = "ok" THEN Return(cluster.items, made, <<>>)
    ELSE Raise(cluster.detail, made, <<>>)

\* variant: the node count is taken from the pod list of the default namespace
get_node_count_from_pods(cluster) ==
    LET made == <<Call("list_namespaced_pod", "default", "", cluster.status, cluster.detail)>> IN
    IF cluster.kind = "ok" THEN Return(Len(cluster.items), made, <<>>)
    ELSE Raise(cluster.detail, made, <<>>)

get_node_count(cluster) ==
    LET made == <<Call("list_node", "", "", cluster.status, cluster.detail)>> IN
    IF cluster.kind = "ok" THEN Return(Len(cluster.items), made, <<>>)
    ELSE Raise(cluster.detail, made, <<>>)

is_api_server_accessible(cluster) ==
    LET made == <<Call("get_api_resources", "", "", cluster.status, cluster.detail)>> IN
    IF cluster.kind = "ok" THEN Return("Yes", made, <<>>)
    ELSE Return("No", made,
                <<LogLine("ERROR", "Error accessing the API server: " \o cluster.detail)>>)

\* variant: the messages for failed lookups carry the exception text
get_pod_status_leaky(pod_name, cluster) ==
    LET made == <<Call("read_namespaced_pod", "default", pod_name, cluster.status, cluster.detail)>>
    IN  IF cluster.kind = "ok" THEN Return(cluster.phase, made, <<>>)
        ELSE IF cluster.kind = "ApiException" /\ cluster.status = 404
        THEN Return("Pod not found.", made, <<>>)
        ELSE Return("An error occurred while retrieving pod status: " \o cluster.detail, made,
                    <<LogLine("ERROR", "API exception when retrieving status for pod '"
                              \o pod_name \o "': " \o cluster.detail)>>)

\* variant: status 404 is not told apart from the other API exceptions
get_pod_status_no404(pod_name, cluster) ==
    LET made == <<Call("read_namespaced_pod", "default", pod_name, cluster.status, cluster.detail)>>
    IN  IF cluster.kind = "ok" THEN Return(cluster.phase, made, <<>>)
        ELSE Return("An error occurred while retrieving pod status.", made,
                    <<LogLine("ERROR", "API exception when retrieving status for pod '"
                              \o pod_name \o "': " \o cluster.detail)>>)

get_pod_status(pod_name, cluster) ==
    LET made == <<Call("read_namespaced_pod", "default", pod_name, cluster.status, cluster.detail)>>
        info == LogLine("INFO", "Attempting to get status for pod '" \o pod_name
                                \o "' in namespace 'default'")
    IN  IF cluster.kind = "ok" THEN Return(cluster.phase, made, <<info>>)
        ELSE IF cluster.kind = "ApiException"
        THEN IF cluster.status = 404
             THEN Return("Pod not found.", made,
                         <<info, LogLine("ERROR", "Pod '" \o pod_name
                                  \o "' not found in namespace 'default'.")>>)
             ELSE Return("An error occurred while retrieving pod status.", made,
                         <<info, LogLine("ERROR", "API exception when retrieving status for pod '"
                                  \o pod_name \o "': " \o cluster.detail)>>)
        ELSE Return("An unexpected error occurred while retrieving pod status.", made,
                    <<info, LogLine("ERROR", "Unexpected error when retrieving status for pod '"
                             \o pod_name \o "': " \o cluster.detail)>>)

get_pods_by_deployment(deployment_name, cluster) ==
    LET made == <<Call("list_namespaced_pod", "default", "app=" \o deployment_name,
                       cluster.status, cluster.detail)>> IN
    IF cluster.kind = "ok"
    THEN IF Len(cluster.items) > 0
         THEN Return(deployment_name, made, <<>>)
         ELSE Return("No pods found for deployment '" \o deployment_name \o "'.", made, <<>>)
    ELSE IF cluster.kind = "ApiException"
    THEN Return("An error occurred while retrieving pods for the deployment.", made,
                <<LogLine("ERROR", "API exception when retrieving pods for deployment '"
                          \o deployment_name \o "': " \o cluster.detail)>>)
    ELSE Return("An unexpected error occurred while retrieving pods for the deployment.", made,
                <<LogLine("ERROR", "Unexpected error when retrieving pods for deployment '"
                          \o deployment_name \o "': " \o cluster.detail)>>)

(* ---------------- process_query ---------------- *)

\* the f-string sent to the completion service
structured_prompt(q) ==
    "\n        You are a Kubernetes assistant. Given a user query, identify the Kubernetes action needed. Here are some examples:\n"
    \o "        \n"
    \o "        - \"How many pods are in the default namespace?\" -> count pods\n"
    \o "        - \"List all pods in the default namespace.\" -> list all pods\n"
    \o "        - \"What is the status of the pod named 'example-pod'?\" -> check pod status\n"
    \o "        - \"How many nodes are there in the cluster?\" -> count nodes\n"
    \o "        - \"Is the API server accessible?\" -> check API server\n"
    \o "        - \"Which pod is spawned by my-deployment?\" -> list pods for deployment\n"
    \o "\n        Based on this, interpret the following query: \"" \o str(q) \o "\"\n        "

\* variant: "check API server" is tested before "count nodes"
resolve_intent_api_first(text) ==
    IF Contains(text, "count pods") THEN "CountPods"
    ELSE IF Contains(text, "list all pods") THEN "ListPods"
    ELSE IF Contains(text, "check pod status") THEN "CheckPodStatus"
    ELSE IF Contains(text, "check API server") THEN "CheckApiServer"
    ELSE IF Contains(text, "count nodes") THEN "CountNodes"
    ELSE IF Contains(text, "list pods for deployment") THEN "ListPodsForDeployment"
    ELSE "Unknown"

\* the if/elif chain over the classifier text: which body runs
resolve_intent(text) ==
    IF Contains(text, "count pods") THEN "CountPods"
    ELSE IF Contains(text, "list all pods") THEN "ListPods"
    ELSE IF Contains(text, "check pod status") THEN "CheckPodStatus"
    ELSE IF Contains(text, "count nodes") THEN "CountNodes"
    ELSE IF Contains(text, "check API server") THEN "CheckApiServer"
    ELSE IF Contains(text, "list pods for deployment") THEN "ListPodsForDeployment"
    ELSE "Unknown"

\* found[0] if found else None
first_or_none(found) == IF Len(found) > 0 THEN Some(found[1]) ELSE None

\* Python truth value of an optional text
truthy(x) == x # None /\ x[1] # ""

count_pods_branch(cluster) ==
    LET r == get_pods(cluster) IN
    IF r.raised THEN r
    ELSE Return("There are " \o ToString(Len(r.value)) \o " pods in the default namespace.",
                r.calls, r.log)

list_pods_branch(cluster) ==
    LET r == get_pods(cluster) IN
    IF r.raised THEN r ELSE Return(join(", ", r.value), r.calls, r.log)

\* variant: the lookup is made whether or not a name was found
check_pod_status_branch_unguarded(q, cluster) ==
    IF q = None THEN Raise(TypeErrorText, <<>>, <<>>)
    ELSE LET pod_name == first_or_none(findall_named(q[1]))
             r == get_pod_status(str(pod_name), cluster)
         IN  Return("The status of the pod '" \o str(pod_name) \o "' is '" \o r.value \o "'.",
                    r.calls, r.log)

check_pod_status_branch(q, cluster) ==
    IF q = None THEN Raise(TypeErrorText, <<>>, <<>>)
    ELSE LET pod_name == first_or_none(findall_named(q[1])) IN
         IF truthy(pod_name)
         THEN LET r == get_pod_status(pod_name[1], cluster) IN
              Return("The status of the pod '" \o pod_name[1] \o "' is '" \o r.value \o "'.",
                     r.calls, r.log)
         ELSE Return("Invalid pod name format in query.", <<>>, <<>>)

count_nodes_branch(cluster) ==
    LET r == get_node_count(cluster) IN
    IF r.raised THEN r
    ELSE Return("There are " \o ToString(r.value) \o " nodes in the cluster.", r.calls, r.log)

check_api_server_branch(cluster) == is_api_server_accessible(cluster)

list_pods_for_deployment_branch(q, cluster) ==
    IF q = None THEN Raise(TypeErrorText, <<>>, <<>>)
    ELSE LET deployment_name == first_or_none(findall_by(q[1])) IN
         IF truthy(deployment_name)
         THEN LET r == get_pods_by_deployment(deployment_name[1], cluster) IN
              Return("The pod(s) spawned by deployment '" \o deployment_name[1]
                     \o "' are: " \o r.value, r.calls, r.log)
         ELSE Return("Invalid deployment name format in query.", <<>>, <<>>)

unknown_branch == Return("I'm sorry, I couldn't determine the action for this query.", <<>>, <<>>)

\* the body selected by the if/elif chain
dispatch(intent, q, cluster) ==
    CASE intent = "CountPods" -> count_pods_branch(cluster)
      [] intent = "ListPods" -> list_pods_branch(cluster)
      [] intent = "CheckPodStatus" -> check_pod_status_branch(q, cluster)
      [] intent = "CountNodes" -> count_nodes_branch(cluster)
      [] intent = "CheckApiServer" -> check_api_server_branch(cluster)
      [] intent = "ListPodsForDeployment" -> list_pods_for_deployment_branch(q, cluster)
      [] OTHER -> unknown_branch

ErrorPrefix == "An error occurred while processing your query: "

\* variant: the answer is str(e) alone
process_query_except_bare(r) ==
    IF r.raised
    THEN Return(r.detail, r.calls,
                r.log \o <<LogLine("ERROR", "Error processing query: " \o r.detail)>>)
    ELSE r

\* except Exception as e: log it and answer with the prefixed str(e)
process_query_except(r) ==
    IF r.raised
    THEN Return(ErrorPrefix \o r.detail, r.calls,
                r.log \o <<LogLine("ERROR", "Error processing query: " \o r.detail)>>)
    ELSE r

(* ---------------- create_query ---------------- *)

\* variant: the fields are Optional[str]
QueryResponse_optional(q, a) == [valid |-> TRUE, query |-> q, answer |-> a]

\* QueryResponse(query=..., answer=...): both fields are required str
QueryResponse(q, a) == [valid |-> q # None /\ a # None, query |-> q, answer |-> a]

HttpResponse(status, q, a, error) ==
    [status |-> status, query |-> q, answer |-> a, error |-> error]

\* the rest of create_query once process_query has returned
create_query_respond(q, a) ==
    LET info == LogLine("INFO", "Generated answer: " \o a)
        response == QueryResponse(q, Some(a))
    IN  IF response.valid
        THEN [http |-> HttpResponse(200, response.query, response.answer, ""),
              log |-> <<info>>]
        ELSE [http |-> HttpResponse(400, None, None, "validation error: query"),
              log |-> <<info, LogLine("ERROR", "Validation error: query")>>]

(* ---------------- the inputs of a request ---------------- *)

RECURSIVE ConcatsUpTo(_, _)
ConcatsUpTo(S, n) ==
    IF n = 0 THEN {""}
    ELSE LET P == ConcatsUpTo(S, n - 1) IN P \cup {p \o x : p \in P, x \in S}

Phrases ==
    <<"count pods", "list all pods", "check pod status", "count nodes",
      "check API server", "list pods for deployment">>

\* classifier texts: the canonical phrases and pieces of one, concatenated
TextSegs == {Phrases[i] : i \in 1..6} \cup {"count ", "pods"}
Texts == ConcatsUpTo(TextSegs, MaxTextSegs)

\* user queries, concatenated from these pieces
QuerySegs == {"named ", "by ", "web-1", "'web-1'"}
Queries == ConcatsUpTo(QuerySegs, MaxQuerySegs)

\* request bodies: a JSON object with or without a query field, or a body
\* that is no JSON object
Bodies ==
    {[kind |-> "object", data |-> [query |-> Some(q)]] : q \in Queries}
    \cup {[kind |-> "object", data |-> [query |-> None]],
          [kind |-> "object", data |-> EmptyObj],
          [kind |-> "other", data |-> EmptyObj]}

Choice(content) == [choices |-> <<[message |-> [content |-> content]]>>]

ServiceResponses ==
    {TransportError, HTTPError}
    \cup {Success(d) : d \in {EmptyObj,
                              [choices |-> <<>>],
                              [choices |-> <<EmptyObj>>],
                              [choices |-> <<[message |-> EmptyObj]>>],
                              Choice(JNull)}}
    \cup {Success(Choice(JStr(t))) : t \in Texts}

ItemLists == {<<>>, <<"web-1">>, <<"web-1", "db-0">>}

ClusterOutcomes ==
    {ApiOk(items, "Running") : items \in ItemLists}
    \cup {ApiException(404, "(404) Reason: Not Found"),
          ApiException(403, "(403) Reason: Forbidden"),
          OtherException("Connection refused")}

(* ---------------- the state machine ---------------- *)

Init ==
    /\ pc = "idle"
    /\ request_data = None
    /\ query = None
    /\ data = None
    /\ intent_response = None
    /\ branch = "none"
    /\ calls = <<>>
    /\ answer = None
    /\ log = <<>>
    /\ http = None

\* create_query up to the call of process_query
create_query ==
    /\ pc = "idle"
    /\ \E body \in Bodies :
         IF body.kind # "object"
         THEN /\ http' = Some(HttpResponse(500, None, None, "An unexpected error occurred."))
              /\ log' = log \o <<LogLine("ERROR", "Unexpected error: no JSON object")>>
              /\ pc' = "done"
              /\ UNCHANGED <<request_data, query>>
         ELSE /\ request_data' = Some(body.data)
              /\ query' = Get(body.data, "query", None)
              /\ log' = log \o <<LogLine("INFO", "Received query: " \o str(query'))>>
              /\ pc' = "classify"
              /\ UNCHANGED http
    /\ UNCHANGED <<data, intent_response, branch, calls, answer>>

\* process_query ends with result r, create_query answers the request
Finish(r) ==
    LET done == create_query_respond(query, r.value) IN
    /\ calls' = calls \o r.calls
    /\ answer' = Some(r.value)
    /\ log' = log \o r.log \o done.log
    /\ http' = Some(done.http)
    /\ pc' = "done"

\* process_query: the classifier call
classify ==
    /\ pc = "classify"
    /\ \E resp \in ServiceResponses :
         LET r == generate_mistral_response(structured_prompt(query), resp) IN
         /\ data' = IF resp.kind = "ok" THEN Some(resp.data) ELSE None
         /\ IF r.raised
            THEN /\ Finish(process_query_except(r))
                 /\ UNCHANGED <<intent_response, branch>>
            ELSE /\ intent_response' = Some(r.value)
                 /\ calls' = calls \o r.calls
                 /\ pc' = "dispatch"
                 /\ UNCHANGED <<branch, answer, log, http>>
    /\ UNCHANGED <<request_data, query>>

\* process_query: the branch chosen by the classifier text, its cluster call
\* and the answer
process_query ==
    /\ pc = "dispatch"
    /\ \E cluster \in ClusterOutcomes :
         LET intent == resolve_intent(intent_response[1]) IN
         /\ branch' = intent
         /\ Finish(process_query_except(dispatch(intent, query, cluster)))
    /\ UNCHANGED <<request_data, query, data, intent_response>>

\* the server takes the next request
app_run ==
    /\ pc = "done"
    /\ pc' = "idle"
    /\ request_data' = None
    /\ query' = None
    /\ data' = None
    /\ intent_response' = None
    /\ branch' = "none"
    /\ calls' = <<>>
    /\ answer' = None
    /\ log' = <<>>
    /\ http' = None

Next == create_query \/ classify \/ process_query \/ app_run

Spec == Init /\ [][Next]_vars

(* ---------------- properties ---------------- *)

\* the request has been answered by process_query
Answered == pc = "done" /\ answer # None

\* the cluster API calls of the request, in order
GatewayCalls == SelectSeq(calls, LAMBDA c : c.op # "chat_completions")

\* the one cluster call of the request raised
GatewayFailed == Answered /\ Len(calls) = 2 /\ calls[2].error # ""

ArgIntents == {"CheckPodStatus", "ListPodsForDeployment"}
PropagatingIntents == {"CountPods", "ListPods", "CountNodes"}
AbsorbingIntents == {"CheckPodStatus", "CheckApiServer", "ListPodsForDeployment"}

Apology == "I'm sorry, I couldn't determine the action for this query."

PhraseIntent ==
    <<"CountPods", "ListPods", "CheckPodStatus", "CountNodes", "CheckApiServer",
      "ListPodsForDeployment">>

\* the intent of the first phrase, in the stated order, that the text contains
FirstPhraseIntent(text) ==
    LET hit == {i \in 1..6 : Contains(text, Phrases[i])}
    IN  IF hit = {} THEN "Unknown" ELSE PhraseIntent[SetMin(hit)]

\* C1: the branch process_query takes is the intent of the first canonical
\* phrase, in the order count pods, list all pods, check pod status, count
\* nodes, check API server, list pods for deployment, that the classifier
\* text contains, wherever the phrases stand in the text.
C1_PriorityOrder ==
    Answered /\ intent_response # None => branch = FirstPhraseIntent(intent_response[1])

\* the text names check API server before count nodes; count nodes decides
C1_Witness ==
    /\ Answered
    /\ intent_response = Some("check API servercount nodes")
    /\ branch = "CountNodes"
    /\ Len(calls) = 2 /\ calls[2].op = "list_node"

\* C2: with intent CheckPodStatus and no pod name in the query, or intent
\* ListPodsForDeployment and no deployment name in the query, the request
\* makes no cluster call and answers with the invalid-format message of the
\* intent.
C2_ArgumentMissing ==
    Answered /\ query # None =>
      /\ (branch = "CheckPodStatus" /\ findall_named(query[1]) = <<>> =>
            /\ GatewayCalls = <<>>
            /\ answer = Some("Invalid pod name format in query."))
      /\ (branch = "ListPodsForDeployment" /\ findall_by(query[1]) = <<>> =>
            /\ GatewayCalls = <<>>
            /\ answer = Some("Invalid deployment name format in query."))

\* a query that says "by" but not "named", classified as a pod status check
C2_Witness ==
    /\ Answered
    /\ branch = "CheckPodStatus"
    /\ query = Some("by web-1")
    /\ answer = Some("Invalid pod name format in query.")
    /\ Len(calls) = 1

\* C3 as stated: whenever the classifier call, the argument extraction or the
\* cluster call of a request raised, for every intent, the answer is the
\* prefixed error message.
C3_EveryFailurePrefixed ==
    /\ Answered
    /\ \/ branch = "none"
       \/ (query = None /\ branch \in ArgIntents)
       \/ GatewayFailed
    => StartsWith(answer[1], ErrorPrefix)

\* C3 amended: an exception of the classifier call or of the argument
\* extraction, and an exception of the cluster call of CountPods, ListPods or
\* CountNodes, gives the prefixed error message with str(e); a failing cluster
\* call of CheckPodStatus, CheckApiServer or ListPodsForDeployment is absorbed
\* by the helper and gives the ordinary answer of the intent ("No" for
\* CheckApiServer), without the prefix.
C3_FailurePolicy ==
    Answered =>
      /\ (branch = "none" =>
            /\ StartsWith(answer[1], ErrorPrefix)
            /\ (calls[1].error # "" => answer[1] = ErrorPrefix \o calls[1].error))
      /\ (query = None /\ branch \in ArgIntents =>
            answer[1] = ErrorPrefix \o TypeErrorText)
      /\ (GatewayFailed /\ branch \in PropagatingIntents =>
            answer[1] = ErrorPrefix \o calls[2].error)
      /\ (GatewayFailed /\ branch \in AbsorbingIntents =>
            /\ ~StartsWith(answer[1], ErrorPrefix)
            /\ (branch = "CheckApiServer" => answer[1] = "No")
            /\ (branch = "CheckPodStatus" =>
                  StartsWith(answer[1], "The status of the pod '"))
            /\ (branch = "ListPodsForDeployment" =>
                  StartsWith(answer[1], "The pod(s) spawned by deployment '")))

\* listing the nodes was refused
C3_Witness ==
    /\ GatewayFailed
    /\ branch = "CountNodes"
    /\ answer = Some(ErrorPrefix \o "(403) Reason: Forbidden")

\* C4 as stated: after a failed completion-service call the answer is the
\* prefixed message with the failure detail, no cluster call is made and the
\* handler returns {query, answer} with status 200.
C4_ServiceFailureAlwaysOk ==
    Answered /\ calls[1].error # "" =>
      /\ answer[1] = ErrorPrefix \o calls[1].error
      /\ GatewayCalls = <<>>
      /\ http = Some(HttpResponse(200, query, answer, ""))

\* C4 amended: after a failed completion-service call the answer is the
\* prefixed message with the failure detail and no cluster call is made; the
\* handler returns it as {query, answer} with status 200 when the request
\* carried a query text, and answers 400 when it carried none.
C4_ServiceFailure ==
    Answered /\ calls[1].error # "" =>
      /\ answer[1] = ErrorPrefix \o calls[1].error
      /\ Contains(answer[1], calls[1].error)
      /\ GatewayCalls = <<>>
      /\ (query # None => http = Some(HttpResponse(200, query, answer, "")))
      /\ (query = None => http[1].status = 400)

\* the completion service refused the credential
C4_Witness ==
    /\ Answered
    /\ calls[1].error = HTTPError.detail
    /\ query = Some("named web-1")
    /\ http[1].status = 200
    /\ http[1].answer = Some(ErrorPrefix \o HTTPError.detail)

\* a successful service response without choices or without content
NoContent(d) ==
    \/ "choices" \notin DOMAIN d
    \/ Len(d.choices) = 0
    \/ "message" \notin DOMAIN d.choices[1]
    \/ "content" \notin DOMAIN d.choices[1].message
    \/ "null" \in DOMAIN d.choices[1].message.content

\* C5: for a successful service response without choices or content the
\* classifier text is the empty string, so the request resolves to Unknown
\* and gets the apology answer.
C5_NoContentIsEmptyText ==
    /\ data # None /\ NoContent(data[1]) /\ pc = "dispatch"
         => intent_response = Some("")
    /\ data # None /\ NoContent(data[1]) /\ pc = "done"
         => branch = "Unknown" /\ answer = Some(Apology)

\* C6: a request whose JSON body has no query field ends with status 400,
\* whatever the completion service and the cluster do.
C6_MissingQueryIs400 ==
    pc = "done" /\ request_data # None /\ "query" \notin DOMAIN request_data[1]
      => http # None /\ http[1].status = 400

\* no query field, and the cluster was even asked for its nodes
C6_Witness ==
    /\ pc = "done"
    /\ request_data = Some(EmptyObj)
    /\ branch = "CountNodes"
    /\ Len(calls) = 2 /\ calls[2].error = ""
    /\ http[1].status = 400

\* the agent.log holds an error line with the text
LoggedError(text) ==
    \E i \in DOMAIN log : log[i].level = "ERROR" /\ Contains(log[i].msg, text)

\* C7 as stated: for every intent, the answer to a request whose cluster call
\* raised something other than not-found does not contain the exception text.
C7_NoDetailInAnyAnswer ==
    GatewayFailed /\ calls[2].status # 404 => ~Contains(answer[1], calls[2].error)

\* C7 amended: when the cluster call raised something other than not-found,
\* the answer for CheckPodStatus, CheckApiServer and ListPodsForDeployment
\* does not contain the exception text, which goes to the log only; the answer
\* for CountPods, ListPods and CountNodes is the error prefix followed by the
\* exception text, which is logged too.
C7_DetailOnlyWherePropagated ==
    GatewayFailed /\ calls[2].status # 404 =>
      /\ LoggedError(calls[2].error)
      /\ (branch \in AbsorbingIntents => ~Contains(answer[1], calls[2].error))
      /\ (branch \in PropagatingIntents => answer[1] = ErrorPrefix \o calls[2].error)

\* reading the pod was refused
C7_Witness ==
    /\ GatewayFailed
    /\ branch = "CheckPodStatus"
    /\ calls[2].status = 403
    /\ answer = Some("The status of the pod 'web-1' is 'An error occurred while retrieving pod status.'.")

\* C8: a request makes at most one cluster call, the one of its intent
\* (CountPods, ListPods: list the pods of the default namespace;
\* CheckPodStatus: read the pod; CountNodes: list the nodes; CheckApiServer:
\* the API-resource probe; ListPodsForDeployment: list the pods with label
\* app={name}); a text with none of the six phrases makes none and gets the
\* apology answer.
C8_OneCallOfTheIntent ==
    LET g == GatewayCalls IN
    /\ Len(g) <= 1
    /\ Len(g) = 1 =>
         CASE branch \in {"CountPods", "ListPods"} ->
                g[1].op = "list_namespaced_pod" /\ g[1].namespace = "default" /\ g[1].arg = ""
           [] branch = "CheckPodStatus" ->
                /\ g[1].op = "read_namespaced_pod" /\ g[1].namespace = "default"
                /\ findall_named(query[1]) # <<>>
                /\ g[1].arg = findall_named(query[1])[1]
           [] branch = "CountNodes" -> g[1].op = "list_node"
           [] branch = "CheckApiServer" -> g[1].op = "get_api_resources"
           [] branch = "ListPodsForDeployment" ->
                /\ g[1].op = "list_namespaced_pod" /\ g[1].namespace = "default"
                /\ findall_by(query[1]) # <<>>
                /\ g[1].arg = "app=" \o findall_by(query[1])[1]
           [] OTHER -> FALSE
    /\ (/\ Answered /\ intent_response # None
        /\ \A i \in 1..6 : ~Contains(intent_response[1], Phrases[i]))
         => g = <<>> /\ answer = Some(Apology)

\* the pods of a deployment were listed by label
C8_Witness ==
    /\ Answered
    /\ branch = "ListPodsForDeployment"
    /\ GatewayCalls # <<>>
    /\ GatewayCalls[1].arg = "app=web-1"

\* C9: with intent CheckPodStatus, an extracted pod name x and a 404 from the
\* pod lookup, the answer is "The status of the pod 'x' is 'Pod not found.'."
\* and has no error prefix.
C9_NotFoundIsAnAnswer ==
    /\ Answered /\ branch = "CheckPodStatus"
    /\ query # None /\ findall_named(query[1]) # <<>>
    /\ Len(calls) = 2 /\ calls[2].status = 404
    => /\ answer[1] = "The status of the pod '" \o findall_named(query[1])[1]
                      \o "' is 'Pod not found.'."
       /\ ~StartsWith(answer[1], ErrorPrefix)

\* the quoted pod does not exist
C9_Witness ==
    /\ Answered /\ branch = "CheckPodStatus"
    /\ query = Some("named 'web-1'")
    /\ calls[2].status = 404
    /\ answer = Some("The status of the pod 'web-1' is 'Pod not found.'.")

\* C10: a request that reaches process_query calls the completion service
\* exactly once and before any cluster call, and a call that failed is the
\* last call of the request, which is then answered.
C10_OneClassificationNoRetry ==
    /\ pc = "classify" => calls = <<>>
    /\ pc = "dispatch" \/ Answered =>
         /\ calls[1].op = "chat_completions"
         /\ Cardinality({i \in DOMAIN calls : calls[i].op = "chat_completions"}) = 1
    /\ \A i \in DOMAIN calls : calls[i].error # "" => i = Len(calls) /\ pc = "done"

\* the classification succeeded and listing the pods failed
C10_Witness ==
    /\ Answered
    /\ Len(calls) = 2
    /\ calls[1].error = "" /\ calls[2].error = "Connection refused"
    /\ branch = "ListPods"

====
